---- MODULE Spec2Model ----
(***************************************************************************)
(* Model of the GitLab webhook review bridge (src/main.py): configuration  *)
(* validation at start-up, the /health endpoint, the /webhook dispatcher   *)
(* and the merge-request and push handlers with their three outbound calls *)
(* (fetch changes, generate review, post comment).                         *)
(*                                                                         *)
(* JSON values and Python values are tagged records; texts are sequences   *)
(* of string pieces, so that concatenation is \o and suffixes are visible. *)
(***************************************************************************)
EXTENDS Integers, Sequences, FiniteSets, TLC

VARIABLES
    env,        \* os.environ as read by the process
    proc,       \* "starting" | "running" | "exit <status>"
    health,     \* last response of GET /health
    pc,         \* per delivery: position of the request in webhook()
    req,        \* per delivery: the inbound request (header token, body)
    calls,      \* per delivery: outbound calls issued so far, in order
    fetchRes,   \* per delivery: what requests.get produced
    genRes,     \* per delivery: what the generation call produced
    postRes,    \* per delivery: what requests.post produced
    resp        \* per delivery: the response returned to the caller

vars == <<env, proc, health, pc, req, calls, fetchRes, genRes, postRes, resp>>

----------------------------------------------------------------------------
(* Bounds *)

MaxChanges == 2     \* longest "changes" list in a fetch response
MaxTextLen == 2     \* longest generated text, in pieces

Deliveries == {1, 2}    \* webhook deliveries the variables have room for
Single == {1}           \* deliveries handled under Spec

----------------------------------------------------------------------------
(* JSON / Python values *)

Null == [t |-> "null"]
Str(s) == [t |-> "str", s |-> s]
Num(n) == [t |-> "num", n |-> n]
Bool(b) == [t |-> "bool", b |-> b]
List(q) == [t |-> "list", l |-> q]
Dict(f) == [t |-> "dict", d |-> f]

Restrict(f, S) == [k \in S |-> f[k]]

EmptyDict == Dict(Restrict([k \in {"k"} |-> Null], {}))

\* Python truthiness of a JSON value (the `not payload` test)
Truthy(v) ==
    CASE v.t = "null" -> FALSE
      [] v.t = "str"  -> v.s # ""
      [] v.t = "num"  -> v.n # 0
      [] v.t = "bool" -> v.b
      [] v.t = "list" -> Len(v.l) > 0
      [] v.t = "dict" -> DOMAIN v.d # {}

\* Outcome of a Python expression: a value or a raised exception
Ok(v) == [ok |-> TRUE, val |-> v]
Raise(type, msg) == [ok |-> FALSE, type |-> type, msg |-> msg]

\* v[k] with a string key
GetItem(v, k) ==
    IF v.t = "dict"
    THEN IF k \in DOMAIN v.d THEN Ok(v.d[k])
         ELSE Raise("KeyError", <<"'", k, "'">>)      \* str(KeyError(k)) is repr(k)
    ELSE Raise("TypeError", <<"bad subscript on ", v.t>>)

\* v.get(k, default)
GetMethod(v, k, default) ==
    IF v.t = "dict"
    THEN Ok(IF k \in DOMAIN v.d THEN v.d[k] ELSE default)
    ELSE Raise("AttributeError", <<v.t, " has no attribute 'get'">>)

\* len(v)
PyLen(v) ==
    CASE v.t = "list" -> Ok(Len(v.l))
      [] v.t = "dict" -> Ok(Cardinality(DOMAIN v.d))
      [] v.t = "str"  -> Ok(IF v.s = "" THEN 0 ELSE 1)
      [] OTHER        -> Raise("TypeError", <<v.t, " has no len()">>)

\* str(v) as used in f-strings, one piece per value
PyStr(v) ==
    CASE v.t = "null" -> "None"
      [] v.t = "str"  -> v.s
      [] v.t = "num"  -> ToString(v.n)
      [] v.t = "bool" -> IF v.b THEN "True" ELSE "False"
      [] v.t = "list" -> "[...]"
      [] v.t = "dict" -> "{...}"

\* text.strip(): texts are sequences of pieces, " " is a whitespace piece
RECURSIVE LStrip(_)
LStrip(s) == IF s # <<>> /\ Head(s) = " " THEN LStrip(Tail(s)) ELSE s

RECURSIVE RStrip(_)
RStrip(s) == IF s # <<>> /\ s[Len(s)] = " " THEN RStrip(SubSeq(s, 1, Len(s) - 1)) ELSE s

Strip(s) == RStrip(LStrip(s))

----------------------------------------------------------------------------
(* Configuration *)

Unset == [set |-> FALSE, v |-> ""]
Set(v) == [set |-> TRUE, v |-> v]

\* os.environ.get(var)
EnvGet(e, var) == IF e[var].set THEN Str(e[var].v) ELSE Null

required_vars == <<"OPENAI_API_KEY", "GITLAB_TOKEN", "GITLAB_URL", "EXPECTED_GITLAB_TOKEN">>

EnvVars == {required_vars[i] : i \in 1..Len(required_vars)}
              \cup {"AZURE_OPENAI_API_BASE", "OPENAI_API_MODEL"}

EnvValues(var) ==
    CASE var = "EXPECTED_GITLAB_TOKEN" -> {Unset, Set(""), Set("secret")}
      [] var = "OPENAI_API_MODEL"      -> {Unset, Set(""), Set("custom-model")}
      [] var = "AZURE_OPENAI_API_BASE" -> {Unset, Set("https://azure")}
      [] OTHER                         -> {Unset, Set(""), Set("v")}

Environments == {e \in [EnvVars -> {Unset, Set(""), Set("secret"), Set("custom-model"),
                                    Set("https://azure"), Set("v")}] :
                    \A var \in EnvVars : e[var] \in EnvValues(var)}

\* exit(status): the process is gone, with that status
exit(status) == "exit " \o ToString(status)

\* variant: only variables that are not set at all count as missing
missing_vars_unset_only(e) == {var \in EnvVars :
                      /\ \E i \in 1..Len(required_vars) : required_vars[i] = var
                      /\ ~e[var].set}

\* validate_environment(): the variables that are unset or empty
missing_vars(e) == {var \in EnvVars :
                      /\ \E i \in 1..Len(required_vars) : required_vars[i] = var
                      /\ ~Truthy(EnvGet(e, var))}

validate_environment(e) == missing_vars(e) = {}

\* module-level configuration read at import
openai_api_key(e) == EnvGet(e, "OPENAI_API_KEY")
gitlab_token(e) == EnvGet(e, "GITLAB_TOKEN")
gitlab_url(e) == EnvGet(e, "GITLAB_URL")

----------------------------------------------------------------------------
(* Responses *)

NoResponse == [status |-> 0, body |-> <<>>, via |-> "none"]
Response(status, body) == [status |-> status, body |-> body, via |-> "view"]
\* an exception that leaves the view function is turned into a response by
\* the registered 500 error handler
internal_error == [status |-> 500, body |-> <<"Error interno del servidor">>, via |-> "errorhandler"]

NoResult == [kind |-> "none"]

----------------------------------------------------------------------------
(* Inbound requests *)

\* X-Gitlab-Token as returned by request.headers.get: None or a string
Tokens == {Null, Str(""), Str("wrong"), Str("secret")}

ActionValues == {Str("open"), Str("close")}

ObjectAttributesValues ==
    {Str("x")} \cup
    {Dict(Restrict(f, S)) : f \in [action : ActionValues, iid : {Num(5)}],
                            S \in SUBSET {"action", "iid"}}

ProjectValues ==
    {Str("x")} \cup
    {Dict(Restrict(f, S)) : f \in [id : {Num(1)}, name : {Str("p")}],
                            S \in SUBSET {"id", "name"}}

ObjectKinds == {Str("merge_request"), Str("push"), Str("note")}

\* JSON objects GitLab (or anybody holding the secret) may send: every
\* sub-document of the merge-request shape and of the push shape
ObjectPayloads ==
    {Dict(Restrict(f, S)) :
        f \in [object_kind : ObjectKinds,
               object_attributes : ObjectAttributesValues,
               project : ProjectValues],
        S \in SUBSET {"object_kind", "object_attributes", "project"}}
    \cup
    {Dict(Restrict(f, S)) :
        f \in [object_kind : ObjectKinds,
               project_id : {Num(1)},
               after : {Str("abc123")},
               project : ProjectValues],
        S \in SUBSET {"object_kind", "project_id", "after", "project"}}

\* JSON documents that are not objects
ScalarPayloads == {Null, Bool(FALSE), Bool(TRUE), Num(0), Num(7), Str(""), Str("x"),
                   List(<<>>), List(<<Num(1)>>)}

Bodies == {[kind |-> "malformed"], [kind |-> "absent"]} \cup
          {[kind |-> "json", value |-> v] : v \in ObjectPayloads \cup ScalarPayloads}

Requests == [token : Tokens, body : Bodies]

NoRequest == [token |-> Null, body |-> [kind |-> "none"]]

\* request.json: the parsed document, or an exception.  Without a JSON body
\* Flask either raises (415/400) or yields None, depending on its version.
request_json(body) ==
    CASE body.kind = "json"      -> {Ok(body.value)}
      [] body.kind = "malformed" -> {Raise("BadRequest", <<"Failed to decode JSON object">>)}
      [] body.kind = "absent"    -> {Raise("UnsupportedMediaType", <<"Did not attempt to load JSON data">>),
                                     Ok(Null)}
      [] OTHER                   -> {}

----------------------------------------------------------------------------
(* Steps of a view function: return a response, or block in an outbound call *)

Return(status, body) == [do |-> "return", resp |-> Response(status, body)]
Unhandled == [do |-> "return", resp |-> internal_error]
Call(c, at) == [do |-> "call", call |-> c, at |-> at]

RECURSIVE GetPath(_, _)
\* v[k1][k2]...
GetPath(v, keys) ==
    IF keys = <<>> THEN Ok(v)
    ELSE LET first == GetItem(v, Head(keys))
         IN IF first.ok THEN GetPath(first.val, Tail(keys)) ELSE first

footer == <<"\n\nEste comentario fue generado por un pato de inteligencia artificial.">>

\* variant: every exception of the merge-request handler is a server error
mr_except_all_500(exc) ==
    Return(500, <<"Error procesando MR: ">> \o exc.msg)

\* except KeyError / except Exception of process_merge_request
mr_except(exc) ==
    IF exc.type = "KeyError"
    THEN Return(400, <<"Campo faltante en el payload: ">> \o exc.msg)
    ELSE Return(500, <<"Error procesando MR: ">> \o exc.msg)

\* variant: the exception message is kept out of the response
push_except_opaque(exc) ==
    IF exc.type = "KeyError"
    THEN Return(400, <<"Campo faltante en el payload: ">> \o exc.msg)
    ELSE Return(500, <<"Error procesando push">>)

\* except KeyError / except Exception of process_push_event
push_except(exc) ==
    IF exc.type = "KeyError"
    THEN Return(400, <<"Campo faltante en el payload: ">> \o exc.msg)
    ELSE Return(500, <<"Error procesando push: ">> \o exc.msg)

mr_url(e, project_id, mr_id, leaf) ==
    <<PyStr(gitlab_url(e)), "/projects/", PyStr(project_id),
      "/merge_requests/", PyStr(mr_id), leaf>>

commit_url(e, project_id, commit_id, leaf) ==
    <<PyStr(gitlab_url(e)), "/projects/", PyStr(project_id),
      "/repository/commits/", PyStr(commit_id), leaf>>

headers(e) == [PrivateToken |-> gitlab_token(e)]

\* variant: all fields are extracted before the action is looked at
mr_begin_fields_first(e, payload) ==
    LET action == GetPath(payload, <<"object_attributes", "action">>)
        project_id == GetPath(payload, <<"project", "id">>)
        mr_id == GetPath(payload, <<"object_attributes", "iid">>)
        project_name == GetPath(payload, <<"project", "name">>)
    IN  IF ~action.ok THEN mr_except(action)
        ELSE IF ~project_id.ok THEN mr_except(project_id)
        ELSE IF ~mr_id.ok THEN mr_except(mr_id)
        ELSE IF ~project_name.ok THEN mr_except(project_name)
        ELSE IF action.val # Str("open") THEN Return(200, <<"No es un MR de apertura">>)
        ELSE Call([op |-> "GET",
                   url |-> mr_url(e, project_id.val, mr_id.val, "/changes"),
                   headers |-> headers(e)], "mr_fetch")

\* process_merge_request up to requests.get
mr_begin(e, payload) ==
    LET action == GetPath(payload, <<"object_attributes", "action">>)
        project_id == GetPath(payload, <<"project", "id">>)
        mr_id == GetPath(payload, <<"object_attributes", "iid">>)
        project_name == GetPath(payload, <<"project", "name">>)
    IN  IF ~action.ok THEN mr_except(action)
        ELSE IF action.val # Str("open") THEN Return(200, <<"No es un MR de apertura">>)
        ELSE IF ~project_id.ok THEN mr_except(project_id)
        ELSE IF ~mr_id.ok THEN mr_except(mr_id)
        ELSE IF ~project_name.ok THEN mr_except(project_name)
        ELSE Call([op |-> "GET",
                   url |-> mr_url(e, project_id.val, mr_id.val, "/changes"),
                   headers |-> headers(e)], "mr_fetch")

\* process_push_event up to requests.get
push_begin(e, payload) ==
    LET project_id == GetItem(payload, "project_id")
        commit_id == GetItem(payload, "after")
        project == GetMethod(payload, "project", EmptyDict)
        project_name == IF project.ok
                        THEN GetMethod(project.val, "name", Str("Proyecto desconocido"))
                        ELSE project
    IN  IF ~project_id.ok THEN push_except(project_id)
        ELSE IF ~commit_id.ok THEN push_except(commit_id)
        ELSE IF ~project_name.ok THEN push_except(project_name)
        ELSE Call([op |-> "GET",
                   url |-> commit_url(e, project_id.val, commit_id.val, "/diff"),
                   headers |-> headers(e)], "push_fetch")

\* variant: the token is only compared when the header is present
webhook_token_optional(e, rq, parsed) ==
    LET received_token == rq.token
        expected_token == EnvGet(e, "EXPECTED_GITLAB_TOKEN")
    IN  IF received_token # Null /\ received_token # expected_token
        THEN Return(403, <<"No autorizado">>)
        ELSE IF ~parsed.ok THEN Return(400, <<"Error en el payload JSON">>)
        ELSE IF ~Truthy(parsed.val) THEN Return(400, <<"Payload vacío">>)
        ELSE LET object_kind == GetMethod(parsed.val, "object_kind", Null)
             IN  IF ~object_kind.ok THEN Unhandled
                 ELSE IF object_kind.val = Str("merge_request") THEN mr_begin(e, parsed.val)
                 ELSE IF object_kind.val = Str("push") THEN push_begin(e, parsed.val)
                 ELSE Return(200, <<"Tipo de evento no soportado: ", PyStr(object_kind.val)>>)

\* variant: an event kind that is not supported is a client error
webhook_unsupported_400(e, rq, parsed) ==
    LET received_token == rq.token
        expected_token == EnvGet(e, "EXPECTED_GITLAB_TOKEN")
    IN  IF received_token # expected_token THEN Return(403, <<"No autorizado">>)
        ELSE IF ~parsed.ok THEN Return(400, <<"Error en el payload JSON">>)
        ELSE IF ~Truthy(parsed.val) THEN Return(400, <<"Payload vacío">>)
        ELSE LET object_kind == GetMethod(parsed.val, "object_kind", Null)
             IN  IF ~object_kind.ok THEN Unhandled
                 ELSE IF object_kind.val = Str("merge_request") THEN mr_begin(e, parsed.val)
                 ELSE IF object_kind.val = Str("push") THEN push_begin(e, parsed.val)
                 ELSE Return(400, <<"Tipo de evento no soportado: ", PyStr(object_kind.val)>>)

\* variant: the parsed payload is routed without the emptiness test
webhook_no_empty_check(e, rq, parsed) ==
    LET received_token == rq.token
        expected_token == EnvGet(e, "EXPECTED_GITLAB_TOKEN")
    IN  IF received_token # expected_token THEN Return(403, <<"No autorizado">>)
        ELSE IF ~parsed.ok THEN Return(400, <<"Error en el payload JSON">>)
        ELSE LET object_kind == GetMethod(parsed.val, "object_kind", Null)
             IN  IF ~object_kind.ok THEN Unhandled
                 ELSE IF object_kind.val = Str("merge_request") THEN mr_begin(e, parsed.val)
                 ELSE IF object_kind.val = Str("push") THEN push_begin(e, parsed.val)
                 ELSE Return(200, <<"Tipo de evento no soportado: ", PyStr(object_kind.val)>>)

\* webhook(): authentication, body parsing and routing
webhook(e, rq, parsed) ==
    LET received_token == rq.token
        expected_token == EnvGet(e, "EXPECTED_GITLAB_TOKEN")
    IN  IF received_token # expected_token THEN Return(403, <<"No autorizado">>)
        ELSE IF ~parsed.ok THEN Return(400, <<"Error en el payload JSON">>)
        ELSE IF ~Truthy(parsed.val) THEN Return(400, <<"Payload vacío">>)
        ELSE LET object_kind == GetMethod(parsed.val, "object_kind", Null)
             IN  IF ~object_kind.ok THEN Unhandled
                 ELSE IF object_kind.val = Str("merge_request") THEN mr_begin(e, parsed.val)
                 ELSE IF object_kind.val = Str("push") THEN push_begin(e, parsed.val)
                 ELSE Return(200, <<"Tipo de evento no soportado: ", PyStr(object_kind.val)>>)

----------------------------------------------------------------------------
(* GET /health *)

health_status(e) ==
    [openai_configured |-> Truthy(openai_api_key(e)),
     gitlab_configured |-> Truthy(gitlab_token(e)) /\ Truthy(gitlab_url(e)),
     expected_token_configured |-> Truthy(EnvGet(e, "EXPECTED_GITLAB_TOKEN")),
     azure_configured |-> Truthy(EnvGet(e, "AZURE_OPENAI_API_BASE"))]

\* all(status.values()); the "status" entry itself is a non-empty string
all_configured(e) ==
    LET status == health_status(e)
    IN  \A k \in DOMAIN status : status[k]

health_check(e) ==
    [status |-> IF all_configured(e) THEN 200 ELSE 500,
     healthy |-> all_configured(e),
     flags |-> health_status(e)]

NoHealth == [status |-> 0, healthy |-> FALSE,
             flags |-> [openai_configured |-> FALSE, gitlab_configured |-> FALSE,
                        expected_token_configured |-> FALSE, azure_configured |-> FALSE]]

----------------------------------------------------------------------------
(* State machine *)

Init ==
    /\ env \in Environments
    /\ proc = "starting"
    /\ health = NoHealth
    /\ pc = [r \in Deliveries |-> "idle"]
    /\ req = [r \in Deliveries |-> NoRequest]
    /\ calls = [r \in Deliveries |-> <<>>]
    /\ fetchRes = [r \in Deliveries |-> NoResult]
    /\ genRes = [r \in Deliveries |-> NoResult]
    /\ postRes = [r \in Deliveries |-> NoResult]
    /\ resp = [r \in Deliveries |-> NoResponse]

\* module import: validate_environment(), exit(1) on failure
Startup ==
    /\ proc = "starting"
    /\ proc' = IF validate_environment(env) THEN "running" ELSE exit(1)
    /\ UNCHANGED <<env, health, pc, req, calls, fetchRes, genRes, postRes, resp>>

HealthCheck ==
    /\ proc = "running"
    /\ health' = health_check(env)
    /\ health' # health
    /\ UNCHANGED <<env, proc, pc, req, calls, fetchRes, genRes, postRes, resp>>

\* variant: the response is kept in one place shared by all requests in flight
Advance_shared_response(r, step) ==
    IF step.do = "return"
    THEN /\ resp' = [s \in Deliveries |->
                        IF s = r \/ pc[s] \notin {"idle", "done"} THEN step.resp ELSE resp[s]]
         /\ pc' = [pc EXCEPT ![r] = "done"]
         /\ calls' = calls
    ELSE /\ calls' = [calls EXCEPT ![r] = Append(@, step.call)]
         /\ pc' = [pc EXCEPT ![r] = step.at]
         /\ resp' = resp

\* apply the step a code segment ended in
Advance(r, step) ==
    IF step.do = "return"
    THEN /\ resp' = [resp EXCEPT ![r] = step.resp]
         /\ pc' = [pc EXCEPT ![r] = "done"]
         /\ calls' = calls
    ELSE /\ calls' = [calls EXCEPT ![r] = Append(@, step.call)]
         /\ pc' = [pc EXCEPT ![r] = step.at]
         /\ resp' = resp

\* POST /webhook arrives and runs until it returns or blocks in requests.get
Webhook(r) ==
    /\ proc = "running"
    /\ pc[r] = "idle"
    /\ \E rq \in Requests :
         /\ req' = [req EXCEPT ![r] = rq]
         /\ \E parsed \in request_json(rq.body) : Advance(r, webhook(env, rq, parsed))
    /\ UNCHANGED <<env, proc, health, fetchRes, genRes, postRes>>

----------------------------------------------------------------------------
(* Outbound calls: what the other side may answer *)

ChangeItems == {Dict([diff |-> Str("+x")]),
                Dict([diff |-> Null]),
                EmptyDict}

ChangeLists == UNION {[1..n -> ChangeItems] : n \in 0..MaxChanges}

\* documents the source-control API may send with a 200
FetchDocuments == {Null, EmptyDict, Dict([changes |-> Null]), Dict([message |-> Str("x")])}
                    \cup {List(l) : l \in ChangeLists}
                    \cup {Dict([changes |-> List(l)]) : l \in ChangeLists}

FetchOutcomes ==
    {[kind |-> "raise", msg |-> <<"Connection refused">>]}
      \cup {[kind |-> "http", status |-> s, body |-> [kind |-> "text"]] : s \in {200, 404, 500}}
      \cup {[kind |-> "http", status |-> 200, body |-> [kind |-> "json", value |-> v]] :
                v \in FetchDocuments}
      \cup {[kind |-> "http", status |-> s, body |-> [kind |-> "json", value |-> v]] :
                s \in {404, 500}, v \in {Dict([message |-> Str("x")]), List(<<>>)}}

Texts == UNION {[1..n -> {" ", "LGTM"}] : n \in 0..MaxTextLen}

GenOutcomes ==
    {[kind |-> "raise", msg |-> <<"Rate limit reached">>],
     [kind |-> "malformed", msg |-> <<"'NoneType' object has no attribute 'strip'">>]}
      \cup {[kind |-> "text", text |-> t] : t \in Texts}

PostOutcomes ==
    {[kind |-> "raise", msg |-> <<"Connection reset">>]}
      \cup {[kind |-> "http", status |-> s] : s \in {201, 200, 500}}

\* response.json()
response_json(res) ==
    IF res.body.kind = "json" THEN Ok(res.body.value)
    ELSE Raise("JSONDecodeError", <<"Expecting value">>)

RECURSIVE SetToSeq(_)
SetToSeq(S) == IF S = {} THEN <<>>
               ELSE LET x == CHOOSE x \in S : TRUE IN <<x>> \o SetToSeq(S \ {x})

\* for x in v
Iterate(v) ==
    CASE v.t = "list" -> Ok(v.l)
      [] v.t = "dict" -> Ok([i \in 1..Cardinality(DOMAIN v.d) |-> Str(SetToSeq(DOMAIN v.d)[i])])
      [] v.t = "str"  -> Ok(IF v.s = "" THEN <<>> ELSE <<v>>)
      [] OTHER        -> Raise("TypeError", <<v.t, " is not iterable">>)

RECURSIVE DiffsOf(_)
\* [change["diff"] for change in changes]
DiffsOf(changes) ==
    IF changes = <<>> THEN Ok(<<>>)
    ELSE LET first == GetItem(Head(changes), "diff")
             rest == DiffsOf(Tail(changes))
         IN  IF ~first.ok THEN first
             ELSE IF ~rest.ok THEN rest
             ELSE Ok(<<first.val>> \o rest.val)

\* ''.join(strings)
Join(strings) ==
    IF \E i \in 1..Len(strings) : strings[i].t # "str"
    THEN Raise("TypeError", <<"sequence item: expected str instance">>)
    ELSE Ok([i \in 1..Len(strings) |-> strings[i].s])

mr_pre_prompt == "Revisa los siguientes cambios de código git diff, enfocándote en estructura, seguridad, claridad, arquitectura hexagonal, separación de responsabilidades y orientación a objetos."

mr_questions == <<"", "        Preguntas:",
    "        1. Resume los cambios principales.",
    "        2. ¿Es claro el código nuevo/modificado?",
    "        3. ¿Son descriptivos los comentarios y nombres?",
    "        4. ¿Se puede reducir la complejidad? ¿Ejemplos?",
    "        5. ¿Algún bug? ¿Dónde?",
    "        6. ¿Problemas de seguridad potenciales?",
    "        7. ¿Los cambios respetan la arquitectura hexagonal (puertos y adaptadores)?",
    "        8. ¿Hay una adecuada separación de incumbencias (responsabilidades)?",
    "        9. ¿El código está bien orientado a objetos (encapsulación, herencia, polimorfismo)?",
    "        10. ¿Sugerencias para alineación con mejores prácticas?",
    "        ">>

\* the three role-tagged messages of the merge-request prompt
mr_messages(diffs) ==
    <<[role |-> "system",
       content |-> <<"Eres un desarrollador senior especializado en arquitectura de software, revisando cambios de código con enfoque en arquitectura hexagonal, separación de responsabilidades, orientación a objetos y mejores prácticas de desarrollo.">>],
      [role |-> "user",
       content |-> <<mr_pre_prompt, "\n\n">> \o diffs \o mr_questions],
      [role |-> "assistant",
       content |-> <<"Responde en markdown compatible con GitLab. Incluye una versión concisa de cada pregunta en tu respuesta, prestando especial atención a los aspectos arquitectónicos y de diseño.">>]>>

\* '\n\n'.join([message["content"] for message in messages])
mr_input(messages) ==
    messages[1].content \o <<"\n\n">> \o messages[2].content \o <<"\n\n">> \o messages[3].content

push_pre_prompt == "Revisa el git diff de un commit reciente, enfocándote en claridad, estructura, seguridad, arquitectura hexagonal, separación de responsabilidades y orientación a objetos."

push_questions == <<"", "        Preguntas:",
    "        1. Resume los cambios (estilo Changelog).",
    "        2. ¿Claridad del código agregado/modificado?",
    "        3. ¿Adecuación de comentarios y nombres?",
    "        4. ¿Simplificación sin romper funcionalidad? ¿Ejemplos?",
    "        5. ¿Algún bug? ¿Dónde?",
    "        6. ¿Problemas de seguridad potenciales?",
    "        7. ¿Los cambios respetan la arquitectura hexagonal (puertos y adaptadores)?",
    "        8. ¿Hay una adecuada separación de incumbencias (responsabilidades)?",
    "        9. ¿El código está bien orientado a objetos (encapsulación, herencia, polimorfismo)?",
    "        ">>

\* the three role-tagged messages of the push prompt
push_messages(changes_string) ==
    <<[role |-> "system",
       content |-> <<"Eres un desarrollador senior especializado en arquitectura de software, revisando cambios de código de un commit con enfoque en arquitectura hexagonal, separación de responsabilidades, orientación a objetos y mejores prácticas de desarrollo.">>],
      [role |-> "user",
       content |-> <<push_pre_prompt, "\n\n">> \o changes_string \o push_questions],
      [role |-> "assistant",
       content |-> <<"Responde en markdown para GitLab. Incluye versiones concisas de las preguntas en la respuesta, prestando especial atención a los aspectos arquitectónicos y de diseño.">>]>>

mr_fallback == <<"Lo siento, no me siento bien hoy. Por favor, pide a un humano que revise este PR.">>
push_fallback == <<"Lo siento, no me siento bien hoy. Por favor, pide a un humano que revise este cambio de código.">>
questions_intro == <<"\n\nPara referencia, me dieron las siguientes preguntas: \n">>

\* for question in questions.split("\n"): answer += f"\n{question}"
QuestionLines(questions) ==
    [i \in 1..(2 * Len(questions)) |-> IF i % 2 = 1 THEN "\n" ELSE questions[i \div 2]]

\* variant: only server errors of the fetch are treated as failures
fetch_failed_5xx(res) == res.status >= 500

\* variant: the status of the fetch is not looked at
fetch_failed_never(res) == FALSE

\* response.status_code != 200 after requests.get
fetch_failed(res) == res.status # 200

----------------------------------------------------------------------------
(* process_merge_request after each outbound call *)

\* requests.get returned: lines 124-170
mr_after_fetch(e, res) ==
    IF res.kind = "raise" THEN mr_except(Raise("ConnectionError", res.msg))
    ELSE IF fetch_failed(res)
    THEN Return(500, <<"Error al obtener cambios del MR: ", ToString(res.status)>>)
    ELSE LET mr_changes == response_json(res)
         IN  IF ~mr_changes.ok THEN mr_except(mr_changes)
             ELSE LET logged == GetMethod(mr_changes.val, "changes", List(<<>>))
                      loglen == IF logged.ok THEN PyLen(logged.val) ELSE logged
                      changes == GetItem(mr_changes.val, "changes")
                      items == IF changes.ok THEN Iterate(changes.val) ELSE changes
                      diffs == IF items.ok THEN DiffsOf(items.val) ELSE items
                      joined == IF diffs.ok THEN Join(diffs.val) ELSE diffs
                  IN  IF ~loglen.ok THEN mr_except(loglen)
                      ELSE IF ~joined.ok THEN mr_except(joined)
                      ELSE Call([op |-> "generate",
                                 api |-> "responses.create",
                                 model |-> Str("llama-3.1-8b-instant"),
                                 input |-> mr_input(mr_messages(joined.val))], "mr_generate")

\* variant: the generated text is used as it came back
mr_answer_unstripped(res) ==
    IF res.kind = "text"
    THEN res.text \o footer
    ELSE mr_fallback \o footer \o <<"\n\nError: ">> \o res.msg

\* variant: the fallback does not carry the error text
mr_answer_no_error_text(res) ==
    IF res.kind = "text"
    THEN Strip(res.text) \o footer
    ELSE mr_fallback \o footer

\* the generation call returned or raised: lines 171-188
mr_answer(res) ==
    IF res.kind = "text"
    THEN Strip(res.text) \o footer
    ELSE mr_fallback \o footer \o <<"\n\nError: ">> \o res.msg

mr_after_generate(e, payload, res) ==
    LET project_id == GetPath(payload, <<"project", "id">>).val
        mr_id == GetPath(payload, <<"object_attributes", "iid">>).val
    IN  Call([op |-> "POST",
              url |-> mr_url(e, project_id, mr_id, "/notes"),
              headers |-> headers(e),
              json |-> [key |-> "body", text |-> mr_answer(res)]], "mr_post")

\* variant: a comment that could not be posted is reported to the caller
mr_after_post_strict(res) ==
    IF res.kind = "raise" THEN mr_except(Raise("ConnectionError", res.msg))
    ELSE IF res.status # 201 THEN Return(500, <<"Error al enviar comentario">>)
    ELSE Return(200, <<"OK">>)

\* requests.post returned or raised: lines 190-203
mr_after_post(res) ==
    IF res.kind = "raise" THEN mr_except(Raise("ConnectionError", res.msg))
    ELSE Return(200, <<"OK">>)

----------------------------------------------------------------------------
(* process_push_event after each outbound call *)

\* os.environ.get("OPENAI_API_MODEL") or "gpt-3.5-turbo"
push_model(e) ==
    IF Truthy(EnvGet(e, "OPENAI_API_MODEL")) THEN EnvGet(e, "OPENAI_API_MODEL")
    ELSE Str("gpt-3.5-turbo")

\* requests.get returned: lines 221-265
push_after_fetch(e, res) ==
    IF res.kind = "raise" THEN push_except(Raise("ConnectionError", res.msg))
    ELSE IF fetch_failed(res)
    THEN Return(500, <<"Error al obtener diff del commit: ", ToString(res.status)>>)
    ELSE LET changes == response_json(res)
         IN  IF ~changes.ok THEN push_except(changes)
             ELSE LET loglen == PyLen(changes.val)
                      items == Iterate(changes.val)
                  IN  IF ~loglen.ok THEN push_except(loglen)
                      ELSE IF ~items.ok THEN push_except(items)
                      ELSE Call([op |-> "generate",
                                 api |-> "ChatCompletion.create",
                                 model |-> push_model(e),
                                 deployment_id |-> EnvGet(e, "OPENAI_API_MODEL"),
                                 messages |-> push_messages(
                                     [i \in 1..Len(items.val) |-> PyStr(items.val[i])])],
                           "push_generate")

\* variant: the footer is appended before the list of questions
push_answer_footer_first(res) ==
    IF res.kind = "text"
    THEN Strip(res.text) \o footer \o questions_intro \o QuestionLines(push_questions)
    ELSE push_fallback \o footer \o <<"\n\nError: ">> \o res.msg

\* the generation call returned or raised: lines 266-285
push_answer(res) ==
    IF res.kind = "text"
    THEN Strip(res.text) \o questions_intro \o QuestionLines(push_questions) \o footer
    ELSE push_fallback \o footer \o <<"\n\nError: ">> \o res.msg

push_after_generate(e, payload, res) ==
    LET project_id == GetItem(payload, "project_id").val
        commit_id == GetItem(payload, "after").val
    IN  Call([op |-> "POST",
              url |-> commit_url(e, project_id, commit_id, "/comments"),
              headers |-> headers(e),
              json |-> [key |-> "note", text |-> push_answer(res)]], "push_post")

\* variant: an exception of the comment post is swallowed like a bad status
push_after_post_swallow_all(res) ==
    Return(200, <<"OK">>)

\* requests.post returned or raised: lines 287-300
push_after_post(res) ==
    IF res.kind = "raise" THEN push_except(Raise("ConnectionError", res.msg))
    ELSE Return(200, <<"OK">>)

----------------------------------------------------------------------------
(* Resumption of a delivery when its outbound call completes *)

MRFetchReturns(r) ==
    /\ pc[r] = "mr_fetch"
    /\ \E res \in FetchOutcomes :
         /\ fetchRes' = [fetchRes EXCEPT ![r] = res]
         /\ Advance(r, mr_after_fetch(env, res))
    /\ UNCHANGED <<env, proc, health, req, genRes, postRes>>

MRGenerateReturns(r) ==
    /\ pc[r] = "mr_generate"
    /\ \E res \in GenOutcomes :
         /\ genRes' = [genRes EXCEPT ![r] = res]
         /\ Advance(r, mr_after_generate(env, req[r].body.value, res))
    /\ UNCHANGED <<env, proc, health, req, fetchRes, postRes>>

MRPostReturns(r) ==
    /\ pc[r] = "mr_post"
    /\ \E res \in PostOutcomes :
         /\ postRes' = [postRes EXCEPT ![r] = res]
         /\ Advance(r, mr_after_post(res))
    /\ UNCHANGED <<env, proc, health, req, fetchRes, genRes>>

PushFetchReturns(r) ==
    /\ pc[r] = "push_fetch"
    /\ \E res \in FetchOutcomes :
         /\ fetchRes' = [fetchRes EXCEPT ![r] = res]
         /\ Advance(r, push_after_fetch(env, res))
    /\ UNCHANGED <<env, proc, health, req, genRes, postRes>>

PushGenerateReturns(r) ==
    /\ pc[r] = "push_generate"
    /\ \E res \in GenOutcomes :
         /\ genRes' = [genRes EXCEPT ![r] = res]
         /\ Advance(r, push_after_generate(env, req[r].body.value, res))
    /\ UNCHANGED <<env, proc, health, req, fetchRes, postRes>>

PushPostReturns(r) ==
    /\ pc[r] = "push_post"
    /\ \E res \in PostOutcomes :
         /\ postRes' = [postRes EXCEPT ![r] = res]
         /\ Advance(r, push_after_post(res))
    /\ UNCHANGED <<env, proc, health, req, fetchRes, genRes>>

Deliver(r) ==
    \/ Webhook(r)
    \/ MRFetchReturns(r)
    \/ MRGenerateReturns(r)
    \/ MRPostReturns(r)
    \/ PushFetchReturns(r)
    \/ PushGenerateReturns(r)
    \/ PushPostReturns(r)

Next ==
    \/ Startup
    \/ HealthCheck
    \/ \E r \in Single : Deliver(r)

----------------------------------------------------------------------------
(* Overlapping deliveries: the same handlers, two requests in flight, over a
   smaller choice of requests and call results *)

ConcurrentEnvironments ==
    {e \in Environments : /\ validate_environment(e)
                          /\ ~e["AZURE_OPENAI_API_BASE"].set
                          /\ e["OPENAI_API_MODEL"] # Set("")}

ConcurrentPayloads ==
    {Dict([object_kind |-> Str("merge_request"),
           object_attributes |-> Dict([action |-> Str("open"), iid |-> Num(5)]),
           project |-> Dict([id |-> Num(1), name |-> Str("p")])]),
     Dict([object_kind |-> Str("merge_request"),
           object_attributes |-> Dict([action |-> Str("close"), iid |-> Num(5)]),
           project |-> Dict([id |-> Num(1), name |-> Str("p")])]),
     Dict([object_kind |-> Str("push"), project_id |-> Num(1), after |-> Str("abc123"),
           project |-> Dict([name |-> Str("p")])]),
     Dict([object_kind |-> Str("push"), project_id |-> Num(1)]),
     Dict([object_kind |-> Str("note")])}

ConcurrentRequests ==
    {[token |-> Str("secret"), body |-> [kind |-> "json", value |-> v]] : v \in ConcurrentPayloads}
      \cup {[token |-> Str("wrong"), body |-> [kind |-> "malformed"]],
            [token |-> Str("secret"), body |-> [kind |-> "malformed"]],
            NoRequest}

ConcurrentResults ==
    {NoResult,
     [kind |-> "raise", msg |-> <<"Connection refused">>],
     [kind |-> "http", status |-> 404, body |-> [kind |-> "text"]],
     [kind |-> "http", status |-> 200,
      body |-> [kind |-> "json", value |-> Dict([changes |-> List(<<Dict([diff |-> Str("+x")])>>)])]],
     [kind |-> "http", status |-> 200,
      body |-> [kind |-> "json", value |-> List(<<Dict([diff |-> Str("+x")])>>)]],
     [kind |-> "raise", msg |-> <<"Rate limit reached">>],
     [kind |-> "text", text |-> <<"LGTM">>],
     [kind |-> "raise", msg |-> <<"Connection reset">>],
     [kind |-> "http", status |-> 201],
     [kind |-> "http", status |-> 500]}

ConcurrentChoice ==
    \A r \in Deliveries :
        /\ req[r] \in ConcurrentRequests
        /\ fetchRes[r] \in ConcurrentResults
        /\ genRes[r] \in ConcurrentResults
        /\ postRes[r] \in ConcurrentResults

InitConcurrent == Init /\ env \in ConcurrentEnvironments

WebhookConcurrent(r) == Webhook(r) /\ ConcurrentChoice'
MRFetchReturnsConcurrent(r) == MRFetchReturns(r) /\ ConcurrentChoice'
MRGenerateReturnsConcurrent(r) == MRGenerateReturns(r) /\ ConcurrentChoice'
MRPostReturnsConcurrent(r) == MRPostReturns(r) /\ ConcurrentChoice'
PushFetchReturnsConcurrent(r) == PushFetchReturns(r) /\ ConcurrentChoice'
PushGenerateReturnsConcurrent(r) == PushGenerateReturns(r) /\ ConcurrentChoice'
PushPostReturnsConcurrent(r) == PushPostReturns(r) /\ ConcurrentChoice'

DeliverConcurrent(r) ==
    \/ WebhookConcurrent(r)
    \/ MRFetchReturnsConcurrent(r)
    \/ MRGenerateReturnsConcurrent(r)
    \/ MRPostReturnsConcurrent(r)
    \/ PushFetchReturnsConcurrent(r)
    \/ PushGenerateReturnsConcurrent(r)
    \/ PushPostReturnsConcurrent(r)

NextConcurrent ==
    \/ Startup
    \/ \E r \in Deliveries : DeliverConcurrent(r)

SpecConcurrent == InitConcurrent /\ [][NextConcurrent]_vars

Spec == Init /\ [][Next]_vars

----------------------------------------------------------------------------
(* Vocabulary of the properties *)

Received(r) == pc[r] # "idle"
Done(r) == pc[r] = "done"

\* the header token is exactly the configured secret
Authenticated(r) == Received(r) /\ req[r].token = EnvGet(env, "EXPECTED_GITLAB_TOKEN")

\* the body is a JSON object
HasObject(r) == Received(r) /\ req[r].body.kind = "json" /\ req[r].body.value.t = "dict"

Payload(r) == req[r].body.value

Has(v, k) == v.t = "dict" /\ k \in DOMAIN v.d

KindIs(r, kind) == HasObject(r) /\ Has(Payload(r), "object_kind")
                     /\ Payload(r).d["object_kind"] = Str(kind)

\* v has key k and the value under it is itself an object with key k2
Has2(v, k, k2) == Has(v, k) /\ Has(v.d[k], k2)

\* object_attributes and project are objects wherever they are present
WellTyped(v) == /\ Has(v, "object_attributes") => v.d["object_attributes"].t = "dict"
                /\ Has(v, "project") => v.d["project"].t = "dict"

ActionOf(v) == v.d["object_attributes"].d["action"]

\* the keys a merge-request payload lacks on the way to its required fields
AbsentMRKeys(v) ==
    {k \in {"object_attributes", "project"} : ~Has(v, k)}
      \cup {k \in {"action", "iid"} : Has(v, "object_attributes") /\ ~Has2(v, "object_attributes", k)}
      \cup {k \in {"id", "name"} : Has(v, "project") /\ ~Has2(v, "project", k)}

AbsentPushKeys(v) == {k \in {"project_id", "after"} : ~Has(v, k)}

MissingFieldBody(k) == <<"Campo faltante en el payload: ", "'", k, "'">>

Ops(r) == [i \in 1..Len(calls[r]) |-> calls[r][i].op]

IsPost(c) == c.op = "POST"
PostCalls(r) == SelectSeq(calls[r], IsPost)

NoOutboundCall(r) == /\ calls[r] = <<>>
                     /\ fetchRes[r].kind = "none"
                     /\ genRes[r].kind = "none"
                     /\ postRes[r].kind = "none"

IsSuffix(suf, s) == /\ Len(s) >= Len(suf)
                    /\ SubSeq(s, Len(s) - Len(suf) + 1, Len(s)) = suf

IsInfix(inf, s) == \E i \in 0..(Len(s) - Len(inf)) : SubSeq(s, i + 1, i + Len(inf)) = inf

\* a merge-request payload with action "open" and all required fields
CompleteOpenMR(r) ==
    /\ KindIs(r, "merge_request")
    /\ Has2(Payload(r), "object_attributes", "action")
    /\ ActionOf(Payload(r)) = Str("open")
    /\ Has2(Payload(r), "object_attributes", "iid")
    /\ Has2(Payload(r), "project", "id")
    /\ Has2(Payload(r), "project", "name")

\* the fetch returned 200 with a document holding a list of changes, each with a textual diff
FetchedChanges(r) ==
    /\ fetchRes[r].kind = "http"
    /\ fetchRes[r].status = 200
    /\ fetchRes[r].body.kind = "json"
    /\ Has(fetchRes[r].body.value, "changes")
    /\ LET changes == fetchRes[r].body.value.d["changes"]
       IN  /\ changes.t = "list"
           /\ \A i \in 1..Len(changes.l) :
                Has(changes.l[i], "diff") /\ changes.l[i].d["diff"].t = "str"

NotesUrl(r) ==
    <<PyStr(EnvGet(env, "GITLAB_URL")), "/projects/",
      PyStr(Payload(r).d["project"].d["id"]), "/merge_requests/",
      PyStr(Payload(r).d["object_attributes"].d["iid"]), "/notes">>

----------------------------------------------------------------------------
(* Properties *)

\* C1: a POST /webhook whose X-Gitlab-Token is not exactly the configured
\* secret (another value, or no header) is answered 403 "No autorizado" and
\* nothing else happens, whatever the body is: no handler response, no
\* outbound call.
C1_Unauthorized ==
    \A r \in Deliveries :
        Received(r) /\ ~Authenticated(r) =>
            /\ Done(r)
            /\ resp[r] = Response(403, <<"No autorizado">>)
            /\ NoOutboundCall(r)

\* a request without the header and with a complete merge-request body was rejected
C1_Witness ==
    \E r \in Deliveries :
        /\ req[r].token = Null
        /\ CompleteOpenMR(r)
        /\ resp[r].status = 403

\* C2 as stated: for an authenticated complete "open" merge request, a fetch
\* that returned 200 with changes and a generation that returned T, exactly
\* one comment is posted to the notes endpoint with body T followed by the
\* footer, and the response is 200 "OK".
C2_AsStated ==
    \A r \in Deliveries :
        Authenticated(r) /\ CompleteOpenMR(r) /\ FetchedChanges(r) /\ genRes[r].kind = "text" =>
            /\ Len(PostCalls(r)) = 1
            /\ PostCalls(r)[1].url = NotesUrl(r)
            /\ PostCalls(r)[1].json = [key |-> "body", text |-> genRes[r].text \o footer]
            /\ Done(r) => resp[r] = Response(200, <<"OK">>)

\* C2 amended: in that case exactly one comment is posted to the notes
\* endpoint, its body is T without leading and trailing whitespace followed
\* by the footer, and once the post call has returned a response (of any
\* status) the webhook response is 200 "OK"; if the post call raises, the
\* response is 500.
C2_OpenMRReview ==
    \A r \in Deliveries :
        Authenticated(r) /\ CompleteOpenMR(r) /\ FetchedChanges(r) /\ genRes[r].kind = "text" =>
            /\ Len(PostCalls(r)) = 1
            /\ PostCalls(r)[1].url = NotesUrl(r)
            /\ PostCalls(r)[1].json = [key |-> "body", text |-> Strip(genRes[r].text) \o footer]
            /\ postRes[r].kind = "http" => Done(r) /\ resp[r] = Response(200, <<"OK">>)
            /\ postRes[r].kind = "raise" => Done(r) /\ resp[r].status = 500

\* a review with surrounding whitespace was generated, posted and acknowledged
C2_Witness ==
    \E r \in Deliveries :
        /\ Authenticated(r) /\ CompleteOpenMR(r) /\ FetchedChanges(r)
        /\ genRes[r].kind = "text"
        /\ genRes[r].text = <<" ", "LGTM">>
        /\ postRes[r].kind = "http"
        /\ resp[r].status = 200

\* C3 as stated: every authenticated payload whose object_kind is neither
\* merge_request nor push (or is absent) is answered 200 and no outbound
\* call is made.
C3_AsStated ==
    \A r \in Deliveries :
        /\ Authenticated(r) /\ HasObject(r)
        /\ ~KindIs(r, "merge_request") /\ ~KindIs(r, "push")
        => Done(r) /\ resp[r].status = 200 /\ NoOutboundCall(r)

\* C3 amended: every authenticated payload that is a non-empty JSON object
\* whose object_kind is neither merge_request nor push (or is absent) is
\* answered 200 and no outbound call is made.
C3_UnsupportedKind ==
    \A r \in Deliveries :
        /\ Authenticated(r) /\ HasObject(r) /\ DOMAIN Payload(r).d # {}
        /\ ~KindIs(r, "merge_request") /\ ~KindIs(r, "push")
        => Done(r) /\ resp[r].status = 200 /\ NoOutboundCall(r)

\* an authenticated object without object_kind was accepted and ignored
C3_Witness ==
    \E r \in Deliveries :
        /\ Authenticated(r) /\ HasObject(r)
        /\ ~Has(Payload(r), "object_kind") /\ Has(Payload(r), "project")
        /\ resp[r].status = 200
        /\ calls[r] = <<>>

\* C4 as stated: every authenticated merge-request payload lacking a
\* required field (object_attributes.action, object_attributes.iid,
\* project.id, project.name) and every authenticated push payload lacking a
\* required field (project_id, after) is answered 400 with a body naming a
\* missing field.
C4_AsStated ==
    \A r \in Deliveries :
        /\ Authenticated(r) /\ KindIs(r, "merge_request") /\ WellTyped(Payload(r))
           /\ AbsentMRKeys(Payload(r)) # {}
           => /\ Done(r) /\ resp[r].status = 400
              /\ \E k \in AbsentMRKeys(Payload(r)) : resp[r].body = MissingFieldBody(k)
        /\ Authenticated(r) /\ KindIs(r, "push") /\ AbsentPushKeys(Payload(r)) # {}
           => /\ Done(r) /\ resp[r].status = 400
              /\ \E k \in AbsentPushKeys(Payload(r)) : resp[r].body = MissingFieldBody(k)

\* C4 amended: every authenticated merge-request payload (object_attributes
\* and project being objects where present) that lacks
\* object_attributes.action, or whose action is "open" and that lacks
\* object_attributes.iid, project.id or project.name, and every authenticated
\* push payload lacking project_id or after, is answered 400 with a body
\* naming a missing key.
C4_MissingField ==
    \A r \in Deliveries :
        /\ Authenticated(r) /\ KindIs(r, "merge_request") /\ WellTyped(Payload(r))
           /\ \/ ~Has2(Payload(r), "object_attributes", "action")
              \/ ActionOf(Payload(r)) = Str("open") /\ AbsentMRKeys(Payload(r)) # {}
           => /\ Done(r) /\ resp[r].status = 400
              /\ \E k \in AbsentMRKeys(Payload(r)) : resp[r].body = MissingFieldBody(k)
        /\ Authenticated(r) /\ KindIs(r, "push") /\ AbsentPushKeys(Payload(r)) # {}
           => /\ Done(r) /\ resp[r].status = 400
              /\ \E k \in AbsentPushKeys(Payload(r)) : resp[r].body = MissingFieldBody(k)

\* an "open" merge request without iid was answered 400 naming 'iid'
C4_Witness ==
    \E r \in Deliveries :
        /\ Authenticated(r) /\ KindIs(r, "merge_request") /\ WellTyped(Payload(r))
        /\ Has2(Payload(r), "object_attributes", "action")
        /\ ActionOf(Payload(r)) = Str("open")
        /\ AbsentMRKeys(Payload(r)) = {"iid"}
        /\ resp[r] = Response(400, MissingFieldBody("iid"))

\* C5: every authenticated merge-request payload whose action is present and
\* is not "open" is answered 200 and no outbound call (fetch, generation,
\* comment post) is made.
C5_NotOpenIgnored ==
    \A r \in Deliveries :
        /\ Authenticated(r) /\ KindIs(r, "merge_request")
        /\ Has2(Payload(r), "object_attributes", "action")
        /\ ActionOf(Payload(r)) # Str("open")
        => Done(r) /\ resp[r].status = 200 /\ NoOutboundCall(r)

\* a "close" event that lacks the project was answered 200 without any call
C5_Witness ==
    \E r \in Deliveries :
        /\ Authenticated(r) /\ KindIs(r, "merge_request")
        /\ Has2(Payload(r), "object_attributes", "action")
        /\ ActionOf(Payload(r)) = Str("close")
        /\ ~Has(Payload(r), "project")
        /\ resp[r].status = 200
        /\ calls[r] = <<>>

\* C6: in both handlers, when the fetch call returns a status other than
\* 200 the handler returns 500 and neither the generation call nor the
\* comment-post call is made in that delivery.
C6_FetchFailure ==
    \A r \in Deliveries :
        fetchRes[r].kind = "http" /\ fetchRes[r].status # 200 =>
            /\ Done(r)
            /\ resp[r].status = 500
            /\ Ops(r) = <<"GET">>
            /\ genRes[r].kind = "none"
            /\ postRes[r].kind = "none"

\* a push whose diff fetch returned 404 with a JSON error document was answered 500
C6_Witness ==
    \E r \in Deliveries :
        /\ KindIs(r, "push")
        /\ fetchRes[r].kind = "http"
        /\ fetchRes[r].status = 404
        /\ fetchRes[r].body.kind = "json"
        /\ resp[r].status = 500
        /\ Ops(r) = <<"GET">>

FallbackOf(r) == IF KindIs(r, "merge_request") THEN mr_fallback ELSE push_fallback

GenerationFailed(r) == genRes[r].kind \in {"raise", "malformed"}

\* C7 as stated: in both handlers, when the generation call fails after a
\* successful fetch the comment is still posted, its body contains the
\* fallback phrase and the error text, and the response is 200.
C7_AsStated ==
    \A r \in Deliveries :
        GenerationFailed(r) =>
            /\ Len(PostCalls(r)) = 1
            /\ IsInfix(FallbackOf(r), PostCalls(r)[1].json.text)
            /\ IsInfix(genRes[r].msg, PostCalls(r)[1].json.text)
            /\ Done(r) => resp[r].status = 200

\* C7 amended: in both handlers, when the generation call fails after a
\* successful fetch the comment is still posted, its body contains the
\* fallback phrase and the error text, and once the post call has returned
\* a response (of any status) the webhook response is 200; if the post call
\* raises, the response is 500.
C7_GenerationFailure ==
    \A r \in Deliveries :
        GenerationFailed(r) =>
            /\ Len(PostCalls(r)) = 1
            /\ IsInfix(FallbackOf(r), PostCalls(r)[1].json.text)
            /\ IsInfix(genRes[r].msg, PostCalls(r)[1].json.text)
            /\ postRes[r].kind = "http" => Done(r) /\ resp[r].status = 200
            /\ postRes[r].kind = "raise" => Done(r) /\ resp[r].status = 500

\* a merge request whose generation raised was commented on and acknowledged
C7_Witness ==
    \E r \in Deliveries :
        /\ KindIs(r, "merge_request")
        /\ genRes[r].kind = "raise"
        /\ Len(PostCalls(r)) = 1
        /\ postRes[r].kind = "http"
        /\ resp[r].status = 200

\* C8: in both handlers, whatever status the comment-post call returns (201
\* or any other), the handler returns 200 "OK".
C8_PostStatusIgnored ==
    \A r \in Deliveries :
        postRes[r].kind = "http" =>
            Done(r) /\ resp[r] = Response(200, <<"OK">>)

\* a comment post that returned 500 was followed by 200 "OK"
C8_Witness ==
    \E r \in Deliveries :
        /\ postRes[r].kind = "http"
        /\ postRes[r].status = 500
        /\ resp[r] = Response(200, <<"OK">>)

RequiredPresent ==
    \A var \in {"OPENAI_API_KEY", "GITLAB_TOKEN", "GITLAB_URL", "EXPECTED_GITLAB_TOKEN"} :
        env[var].set /\ env[var].v # ""

\* C9: GET /health returns 200 if all required configuration values are
\* present and 500 otherwise; the optional alternate-deployment base URL
\* does not change the status.
C9_AsStated ==
    health.status # 0 => health.status = IF RequiredPresent THEN 200 ELSE 500

\* C10: every comment body posted by either handler ends with the
\* attribution footer, after a successful generation and after a fallback.
C10_AsStated ==
    \A r \in Deliveries :
        \A i \in 1..Len(PostCalls(r)) : IsSuffix(footer, PostCalls(r)[i].json.text)


\* the body is not a JSON document, or the document is falsy in Python
\* (null, false, 0, "", [] or {})
UnusableBody(r) ==
    \/ req[r].body.kind \in {"malformed", "absent"}
    \/ /\ req[r].body.kind = "json"
       /\ \/ req[r].body.value \in {Null, Bool(FALSE), Num(0), Str(""), List(<<>>)}
          \/ req[r].body.value.t = "dict" /\ DOMAIN req[r].body.value.d = {}

\* C11: every authenticated request whose body is not valid JSON, or whose
\* parsed payload is empty or falsy, is answered 400 by the dispatcher; no
\* event handler runs and no outbound call is made.
C11_UnusableBody ==
    \A r \in Deliveries :
        Authenticated(r) /\ UnusableBody(r) =>
            /\ Done(r)
            /\ resp[r].status = 400
            /\ resp[r].body \in {<<"Error en el payload JSON">>, <<"Payload vacío">>}
            /\ NoOutboundCall(r)

\* an authenticated request carrying the empty object was answered 400
C11_Witness ==
    \E r \in Deliveries :
        /\ Authenticated(r)
        /\ req[r].body.kind = "json"
        /\ req[r].body.value.t = "dict"
        /\ DOMAIN req[r].body.value.d = {}
        /\ resp[r] = Response(400, <<"Payload vacío">>)


HandlerErrorPrefix(r) ==
    IF KindIs(r, "merge_request") THEN <<"Error procesando MR: ">> ELSE <<"Error procesando push: ">>

\* C12 as stated: every failure of the comment post is swallowed: whether
\* the post call returns a status other than 201 or raises, the response
\* returned to the caller remains 200.
C12_AsStated ==
    \A r \in Deliveries :
        \/ postRes[r].kind = "http" /\ postRes[r].status # 201
        \/ postRes[r].kind = "raise"
        => Done(r) /\ resp[r].status = 200

\* C12 amended: a comment post that returns a status other than 201 is
\* swallowed and the response remains 200 "OK"; a comment post that raises
\* is not swallowed: the handler answers 500 with the exception message in
\* the body.
C12_PostFailure ==
    \A r \in Deliveries :
        /\ postRes[r].kind = "http" /\ postRes[r].status # 201
           => Done(r) /\ resp[r] = Response(200, <<"OK">>)
        /\ postRes[r].kind = "raise"
           => Done(r) /\ resp[r] = Response(500, HandlerErrorPrefix(r) \o postRes[r].msg)

\* a push whose comment post raised was answered 500
C12_Witness ==
    \E r \in Deliveries :
        /\ KindIs(r, "push")
        /\ postRes[r].kind = "raise"
        /\ resp[r].status = 500


Served(r) == pc[r] # "idle"

\* C13: if at start-up any of OPENAI_API_KEY, GITLAB_TOKEN, GITLAB_URL,
\* EXPECTED_GITLAB_TOKEN is unset or empty the process exits with status 1
\* and no request is ever served; if all four are set, validation passes
\* and the process runs.
C13_StartupValidation ==
    /\ proc # "starting" => (proc = "running" <=> RequiredPresent)
    /\ proc # "starting" /\ ~RequiredPresent => proc = "exit 1"
    /\ ~RequiredPresent => health.status = 0 /\ \A r \in Deliveries : ~Served(r)

\* a process whose GITLAB_URL is set but empty has exited with status 1
C13_Witness ==
    /\ env["GITLAB_URL"] = Set("")
    /\ \A var \in EnvVars \ {"GITLAB_URL"} : env[var].set /\ env[var].v # ""
    /\ proc = "exit 1"


IsGenerate(c) == c.op = "generate"
GenerateCalls(r) == SelectSeq(calls[r], IsGenerate)

\* C14: in every handler the generation call is made with the configured
\* model identifier (OPENAI_API_MODEL) when it is set, and with the default
\* model name only when it is unset (an identifier set to the empty string
\* may count as either).
C14_AsStated ==
    \A r \in Deliveries :
        \A i \in 1..Len(GenerateCalls(r)) :
            LET model == GenerateCalls(r)[i].model
            IN  /\ env["OPENAI_API_MODEL"].set /\ env["OPENAI_API_MODEL"].v # ""
                   => model = Str(env["OPENAI_API_MODEL"].v)
                /\ ~env["OPENAI_API_MODEL"].set => model = Str("gpt-3.5-turbo")


IsPrefix(p, s) == Len(p) <= Len(s) /\ SubSeq(s, 1, Len(p)) = p

\* C15: within one delivery the outbound calls are sequential and never
\* retried: the calls made are always a prefix of <fetch, generate, post>;
\* generate is issued only after the fetch returned 200, post only after
\* the generation call returned or failed, and a call has a result only
\* once it was issued.
C15_SequentialCalls ==
    \A r \in Deliveries :
        /\ IsPrefix(Ops(r), <<"GET", "generate", "POST">>)
        /\ Len(Ops(r)) >= 2 => fetchRes[r].kind = "http" /\ fetchRes[r].status = 200
        /\ Len(Ops(r)) >= 3 => genRes[r].kind # "none"
        /\ fetchRes[r].kind # "none" => Len(Ops(r)) >= 1
        /\ genRes[r].kind # "none" => Len(Ops(r)) >= 2
        /\ postRes[r].kind # "none" => Len(Ops(r)) = 3

\* a delivery went through fetch, generate and post, once each, and finished
C15_Witness ==
    \E r \in Deliveries :
        /\ Ops(r) = <<"GET", "generate", "POST">>
        /\ Done(r)
        /\ postRes[r].kind = "http"


\* the pieces that only a list of questions contributes to a comment
QuestionPieces ==
    {questions_intro[1]}
      \cup {push_questions[i] : i \in 2..(Len(push_questions) - 1)}
      \cup {mr_questions[i] : i \in 2..(Len(mr_questions) - 1)}

MentionsQuestions(text) == \E j \in 1..Len(text) : text[j] \in QuestionPieces

\* C16: in the push handler, when generation succeeds the posted comment is
\* the generated text (stripped), then the introduction and the list of the
\* questions asked, one per line and in order, then the footer; when
\* generation fails the questions are not included; the merge-request
\* handler never includes the questions in the posted comment.
C16_QuestionsInPushComment ==
    \A r \in Deliveries :
        \A i \in 1..Len(PostCalls(r)) :
            LET text == PostCalls(r)[i].json.text
                n == IF genRes[r].kind = "text" THEN Len(Strip(genRes[r].text)) ELSE 0
            IN  /\ KindIs(r, "push") /\ genRes[r].kind = "text" =>
                     /\ IsPrefix(Strip(genRes[r].text), text)
                     /\ Len(text) = n + 1 + 2 * Len(push_questions) + 1
                     /\ text[n + 1] = questions_intro[1]
                     /\ \A q \in 1..Len(push_questions) :
                          text[n + 2 * q] = "\n" /\ text[n + 1 + 2 * q] = push_questions[q]
                     /\ text[Len(text)] = footer[1]
                /\ KindIs(r, "push") /\ genRes[r].kind # "text" => ~MentionsQuestions(text)
                /\ KindIs(r, "merge_request") => ~MentionsQuestions(text)

\* a push review was generated and posted with the questions in it
C16_Witness ==
    \E r \in Deliveries :
        /\ KindIs(r, "push")
        /\ genRes[r].kind = "text"
        /\ genRes[r].text = <<"LGTM", " ">>
        /\ Len(PostCalls(r)) = 1
        /\ MentionsQuestions(PostCalls(r)[1].json.text)


\* a 500 of the handler's generic exception clause, with a message in the body
GenericError(r) ==
    /\ Done(r)
    /\ resp[r].status = 500
    /\ resp[r].via = "view"
    /\ IsPrefix(HandlerErrorPrefix(r), resp[r].body)
    /\ Len(resp[r].body) > Len(HandlerErrorPrefix(r))

OnlyFetched(r) == Ops(r) = <<"GET">> /\ genRes[r].kind = "none" /\ postRes[r].kind = "none"

\* C17: in both handlers an exception that is neither a missing-field error
\* nor a failure of the generation call (the fetch call raising, a fetched
\* body that is not JSON, a payload field of the wrong type, the post call
\* raising) is answered 500 with the exception message in the body, and no
\* later step (generation, comment post) is attempted.
C17_UnexpectedException ==
    \A r \in Deliveries :
        /\ fetchRes[r].kind = "raise" =>
             /\ GenericError(r) /\ OnlyFetched(r)
             /\ resp[r].body = HandlerErrorPrefix(r) \o fetchRes[r].msg
        /\ fetchRes[r].kind = "http" /\ fetchRes[r].status = 200 /\ fetchRes[r].body.kind = "text" =>
             GenericError(r) /\ OnlyFetched(r)
        /\ postRes[r].kind = "raise" =>
             /\ GenericError(r)
             /\ resp[r].body = HandlerErrorPrefix(r) \o postRes[r].msg
        /\ /\ Authenticated(r) /\ KindIs(r, "merge_request")
           /\ Has(Payload(r), "object_attributes")
           /\ Payload(r).d["object_attributes"].t # "dict"
           => GenericError(r) /\ NoOutboundCall(r)
        /\ /\ Authenticated(r) /\ KindIs(r, "push")
           /\ AbsentPushKeys(Payload(r)) = {}
           /\ Has(Payload(r), "project")
           /\ Payload(r).d["project"].t # "dict"
           => GenericError(r) /\ NoOutboundCall(r)

\* a push whose diff fetch raised a network error was answered 500 with its message
C17_Witness ==
    \E r \in Deliveries :
        /\ KindIs(r, "push")
        /\ fetchRes[r].kind = "raise"
        /\ resp[r] = Response(500, <<"Error procesando push: ">> \o fetchRes[r].msg)
        /\ Ops(r) = <<"GET">>


\* C19: a 400 of the merge-request or push handler is only ever produced
\* before any outbound call: whenever such a delivery is answered 400, no
\* fetch, generation or comment-post call has been made.
C19_AsStated ==
    \A r \in Deliveries :
        /\ Authenticated(r)
        /\ KindIs(r, "merge_request") \/ KindIs(r, "push")
        /\ Done(r) /\ resp[r].status = 400
        => NoOutboundCall(r)

\* C20: no authenticated request makes webhook() raise an unhandled
\* exception: every body that parses as JSON (object, list, string, number)
\* ends in a response returned by the dispatcher or a handler itself.
C20_AsStated ==
    \A r \in Deliveries :
        Authenticated(r) /\ req[r].body.kind = "json" /\ Done(r) => resp[r].via = "view"


View(at, made, response) == [pc |-> at, calls |-> made, resp |-> response]

\* what a delivery handled alone shows after the request rq and the call
\* results f, g, p it has received so far (NoResult for a call not yet answered)
Alone(e, rq, parsed, f, g, p) ==
    LET s0 == webhook(e, rq, parsed)
    IN  IF s0.do = "return" THEN View("done", <<>>, s0.resp)
        ELSE IF f.kind = "none" THEN View(s0.at, <<s0.call>>, NoResponse)
        ELSE LET s1 == IF s0.at = "mr_fetch" THEN mr_after_fetch(e, f)
                       ELSE push_after_fetch(e, f)
             IN  IF s1.do = "return" THEN View("done", <<s0.call>>, s1.resp)
                 ELSE IF g.kind = "none" THEN View(s1.at, <<s0.call, s1.call>>, NoResponse)
                 ELSE LET s2 == IF s1.at = "mr_generate"
                                THEN mr_after_generate(e, rq.body.value, g)
                                ELSE push_after_generate(e, rq.body.value, g)
                          made == <<s0.call, s1.call, s2.call>>
                      IN  IF p.kind = "none" THEN View(s2.at, made, NoResponse)
                          ELSE View("done", made,
                                    (IF s2.at = "mr_post" THEN mr_after_post(p)
                                     ELSE push_after_post(p)).resp)

\* the delivery shows exactly what it would show had it been handled alone
AsIfAlone(r) ==
    \E parsed \in request_json(req[r].body) :
        View(pc[r], calls[r], resp[r])
            = Alone(env, req[r], parsed, fetchRes[r], genRes[r], postRes[r])

Slot(r) == <<pc[r], req[r], calls[r], fetchRes[r], genRes[r], postRes[r], resp[r]>>

\* a step of one delivery leaves every other delivery and the configuration as they were
Isolated ==
    /\ env' = env
    /\ \A r \in Deliveries :
         Slot(r)' # Slot(r) => \A s \in Deliveries \ {r} : Slot(s)' = Slot(s)

\* C18: overlapping deliveries are independent: in every interleaving of
\* two deliveries, the response and the outbound calls of each are those it
\* would have had if handled alone, and a step of one delivery changes
\* neither the other delivery's state nor the configuration.
C18_IndependentDeliveries ==
    /\ [](\A r \in Deliveries : Received(r) => AsIfAlone(r))
    /\ [][Isolated]_vars

\* a merge request and a push are both waiting for an outbound call
C18_Witness ==
    /\ pc[1] \in {"mr_generate", "mr_post"}
    /\ pc[2] \in {"push_generate", "push_post"}
    /\ calls[1] # <<>>
    /\ calls[2] # <<>>

====
